---- MODULE Spec2Model ----
(***************************************************************************)
(* A model of CTkSafeEditBox (src/CTkSafeEditBox.py): a CTkEntry paired    *)
(* with a CTkButton that toggles the entry between "disabled" and          *)
(* "normal", an optional character limiter on the entry's StringVar, and   *)
(* the _get_hover_color helper.                                            *)
(*                                                                         *)
(* Python strings that the code inspects character by character (colour    *)
(* names and codes, the entry text) are sequences of one-character         *)
(* strings; strings the code only stores and compares (button labels,      *)
(* widget states) are TLA+ strings.                                        *)
(***************************************************************************)
EXTENDS Integers, Sequences, FiniteSets, TLC

VARIABLES
    theme,      \* ctk.ThemeManager.theme["CTkButton"]["fg_color"]
    self,       \* the CTkSafeEditBox instance (its fields and its two child widgets)
    op,         \* name of the operation that produced the current state
    raised,     \* exception type the last operation raised, "None" when it returned
    calls,      \* callbacks the last operation invoked, each with the widget as it saw it
    last_cb,    \* name of the most recent callback invoked since construction
    prev_view,  \* observable edit state just before the previous toggle_edit_mode call
    written,    \* value the last text mutation wrote to entry_var, before the write trace ran
    hover_ret   \* argument and outcome of the last direct _get_hover_color call

vars == <<theme, self, op, raised, calls, last_cb, prev_view, written, hover_ret>>

----------------------------------------------------------------------------
(* Bounds of the model.                                                    *)

\* longest text a single mutation writes to entry_var
MaxLen == 3

\* largest integer max_characters a widget is constructed with
MaxChars == 2

----------------------------------------------------------------------------
(* Python primitives used by the source.                                   *)

None == "None"

HexLower == <<"0","1","2","3","4","5","6","7","8","9","a","b","c","d","e","f">>

HexUpper == <<"0","1","2","3","4","5","6","7","8","9","A","B","C","D","E","F">>

IsHexDigit(c) == \E i \in 1..16 : HexLower[i] = c \/ HexUpper[i] = c

HexVal(c) == (CHOOSE i \in 1..16 : HexLower[i] = c \/ HexUpper[i] = c) - 1

\* str.isspace for the characters the model uses
IsSpace(c) == c \in {" ", "\t"}

RECURSIVE py_lstrip(_)
py_lstrip(s) ==
    IF s # <<>> /\ IsSpace(Head(s)) THEN py_lstrip(Tail(s)) ELSE s

RECURSIVE py_rstrip(_)
py_rstrip(s) ==
    IF s # <<>> /\ IsSpace(s[Len(s)]) THEN py_rstrip(SubSeq(s, 1, Len(s) - 1)) ELSE s

py_strip(s) == py_rstrip(py_lstrip(s))

\* s[:n] for a Python sequence s and an integer n (negative n counts from the end)
py_slice_to(s, n) ==
    IF n >= 0
    THEN SubSeq(s, 1, IF n < Len(s) THEN n ELSE Len(s))
    ELSE SubSeq(s, 1, IF Len(s) + n > 0 THEN Len(s) + n ELSE 0)

\* s[i:j] for 0 <= i <= j
py_slice(s, i, j) ==
    SubSeq(s, i + 1, IF j < Len(s) THEN j ELSE Len(s))

\* s.startswith("#")
startswith_hash(s) == s # <<>> /\ s[1] = "#"

\* the digit part of an int(..., 16) literal: hex digits, single underscores between digits only
py_hex_digits_ok(d) ==
    /\ d # <<>>
    /\ \A i \in 1..Len(d) :
          \/ IsHexDigit(d[i])
          \/ /\ d[i] = "_"
             /\ i > 1 /\ i < Len(d)
             /\ IsHexDigit(d[i-1]) /\ IsHexDigit(d[i+1])

RECURSIVE py_hex_value(_, _)
py_hex_value(d, acc) ==
    IF d = <<>> THEN acc
    ELSE IF Head(d) = "_" THEN py_hex_value(Tail(d), acc)
    ELSE py_hex_value(Tail(d), acc * 16 + HexVal(Head(d)))

\* int(s, 16): surrounding whitespace is stripped, one sign and a 0x prefix are accepted
py_int16(s) ==
    LET digits(neg, digs) ==
            IF py_hex_digits_ok(digs)
            THEN [ok |-> TRUE,
                  val |-> IF neg THEN 0 - py_hex_value(digs, 0) ELSE py_hex_value(digs, 0)]
            ELSE [ok |-> FALSE, val |-> 0]
        prefixed(neg, rest) ==
            digits(neg, IF rest # <<>> /\ rest[1] = "_" THEN Tail(rest) ELSE rest)
        unsigned(neg, body) ==
            IF Len(body) >= 2 /\ body[1] = "0" /\ body[2] \in {"x", "X"}
            THEN prefixed(neg, SubSeq(body, 3, Len(body)))
            ELSE digits(neg, body)
        stripped(t) ==
            IF t # <<>> /\ t[1] \in {"+", "-"}
            THEN unsigned(t[1] = "-", Tail(t))
            ELSE unsigned(FALSE, t)
    IN  stripped(py_strip(s))

\* mutation of darken: the product is rounded up
darken_ceil(r) ==
    IF r >= 0 THEN (r * 85 + 99) \div 100 ELSE 0 - (((0 - r) * 85) \div 100)

\* int(r * 0.85): the float product truncated toward zero.  For every r in
\* -255..255 the double r * 0.85 truncates to the same integer as the exact
\* quotient 85 r / 100 does.
darken(r) ==
    IF r >= 0 THEN (r * 85) \div 100 ELSE 0 - (((0 - r) * 85) \div 100)

py_max0(n) == IF n > 0 THEN n ELSE 0

\* "{:02x}".format(n) for 0 <= n
RECURSIVE py_hex(_)
py_hex(n) ==
    IF n < 16 THEN <<HexLower[n + 1]>> ELSE py_hex(n \div 16) \o <<HexLower[(n % 16) + 1]>>

format_02x(n) == IF n < 16 THEN <<"0">> \o py_hex(n) ELSE py_hex(n)

----------------------------------------------------------------------------
(* The host toolkit: named colours known to winfo_rgb (16 bits per         *)
(* channel), and the theme's button colour entry.                          *)

TkColors ==
    (<<"r","e","d">>         :> <<65535, 0, 0>>) @@
    (<<"g","r","e","e","n">> :> <<0, 32896, 0>>) @@
    (<<"w","h","i","t","e">> :> <<65535, 65535, 65535>>)

\* self.master.winfo_rgb(name); raises TclError for a name Tk does not know
winfo_rgb(name) ==
    IF name \in DOMAIN TkColors
    THEN [ok |-> TRUE, rgb |-> TkColors[name]]
    ELSE [ok |-> FALSE, rgb |-> <<0, 0, 0>>]

\* the stock themes store a [light, dark] list under fg_color
ThemeList == [type |-> "list", table |-> <<>>]

\* a theme whose fg_color entry is a table keyed by colour name
ThemeDict ==
    [type  |-> "dict",
     table |-> (<<"g","r","e","e","n">> :>
                    [type |-> "list", first |-> <<"#","2","C","C","9","8","5">>]) @@
               (<<"r","e","d">> :>
                    [type |-> "str", first |-> <<"c","r","i","m","s","o","n">>]) @@
               (<<"#","F","F","F">> :>
                    [type |-> "str", first |-> <<"#","F","F","F","F","F","F">>]) @@
               (<<"#","1","2","3","4","5","6">> :>
                    [type |-> "str", first |-> <<"#","0","0","0","0","0","0">>]) @@
               (<<"n","u","m">> :>
                    [type |-> "int", first |-> <<>>])]

Themes == {ThemeList, ThemeDict}

----------------------------------------------------------------------------
(* _get_hover_color                                                        *)

\* first stage: look the input up in the theme's button colours; any failure
\* (a list indexed by a string, a missing key, a value that is not a '#'
\* string) falls back to the literal input
theme_lookup(color_name_or_code) ==
    LET found(entry) ==
            IF entry.type \in {"str", "list"} /\ startswith_hash(entry.first)
            THEN entry.first
            ELSE color_name_or_code
    IN  IF theme.type # "dict" \/ color_name_or_code \notin DOMAIN theme.table
        THEN color_name_or_code
        ELSE found(theme.table[color_name_or_code])

Ok(v) == [ok |-> TRUE, val |-> v, err |-> None]

Raise(e) == [ok |-> FALSE, val |-> <<>>, err |-> e]

\* the darker shade of the channels r, g, b as '#rrggbb'
shade(r, g, b) ==
    Ok(<<"#">> \o format_02x(py_max0(darken(r)))
              \o format_02x(py_max0(darken(g)))
              \o format_02x(py_max0(darken(b))))

\* second stage: the resolved colour_code is a Tk colour name or a '#RRGGBB' code
resolve(color_code) ==
    LET named(rgb) ==
            IF rgb.ok
            THEN shade(rgb.rgb[1] \div 256, rgb.rgb[2] \div 256, rgb.rgb[3] \div 256)
            ELSE Raise("ValueError")
        parsed(r, g, b) ==
            IF r.ok /\ g.ok /\ b.ok
            THEN shade(r.val, g.val, b.val)
            ELSE Raise("ValueError")
    IN  IF ~startswith_hash(color_code)
        THEN named(winfo_rgb(color_code))
        ELSE IF Len(color_code) # 7
             THEN Raise("ValueError")
             ELSE parsed(py_int16(py_slice(color_code, 1, 3)),
                         py_int16(py_slice(color_code, 3, 5)),
                         py_int16(py_slice(color_code, 5, 7)))

\* the value _get_hover_color returns, or the exception it raises
hover_color(color_name_or_code) == resolve(theme_lookup(color_name_or_code))

\* mutation of _get_hover_color: the computed shade is cached on the button
_get_hover_color_caching(s, color_name_or_code) ==
    LET cached(out) ==
            [self |-> IF out.ok THEN [s EXCEPT !.EditButton_hover_color = out.val] ELSE s,
             out  |-> out]
    IN  cached(hover_color(color_name_or_code))

\* a call of the method on instance s: the instance after the call (the method
\* assigns to no attribute) and the outcome
_get_hover_color(s, color_name_or_code) ==
    [self |-> s, out |-> hover_color(color_name_or_code)]

----------------------------------------------------------------------------
(* The widget.                                                             *)

\* what a user, or a callback reading the widget, sees of the edit state
View(s) ==
    [can_edit    |-> s.can_edit,
     state       |-> s.Entry_state,
     text        |-> s.EditButton_text,
     fg_color    |-> s.EditButton_fg_color,
     hover_color |-> s.EditButton_hover_color]

\* the fields and the entry of a new instance, before its button exists
new_fields(a) ==
    [can_edit                |-> FALSE,
     edit_disabled_text      |-> a.edit_disabled_text,
     edit_enabled_text       |-> a.edit_enabled_text,
     edit_disabled_color     |-> a.edit_disabled_color,
     edit_enabled_color      |-> a.edit_enabled_color,
     on_disable_edit_command |-> a.on_disable_edit_command,
     on_enable_edit_command  |-> a.on_enable_edit_command,
     max_characters          |-> a.max_characters,
     entry_var               |-> <<>>,
     trace                   |-> /\ a.max_characters.type # "NoneType"
                                 /\ a.max_characters.type = "int",
     Entry_state             |-> "disabled",
     Entry_focus             |-> FALSE,
     Entry_select_all        |-> FALSE,
     EditButton_fg_color     |-> <<>>,
     EditButton_hover_color  |-> <<>>,
     EditButton_text         |-> ""]

\* the outcome of an operation that returned, leaving instance s and having
\* invoked the callbacks cs
Returned(s, cs) == [self |-> s, raised |-> None, calls |-> cs]

\* the outcome of an operation that raised e, leaving instance s
Raised(s, e) == [self |-> s, raised |-> e, calls |-> <<>>]

\* mutation of create_button: the new button gets the enabled look
create_button_enabled_look(s) ==
    LET built(h) ==
            IF ~h.out.ok
            THEN Raised(h.self, h.out.err)
            ELSE Returned([h.self EXCEPT !.EditButton_fg_color    = h.self.edit_enabled_color,
                                         !.EditButton_hover_color = h.out.val,
                                         !.EditButton_text        = h.self.edit_enabled_text],
                          <<>>)
    IN  built(_get_hover_color(s, s.edit_enabled_color))

\* self.EditButton = ctk.CTkButton(...): the hover colour is computed while the
\* arguments are evaluated, so a failure leaves no button and no instance
create_button(s) ==
    LET built(h) ==
            IF ~h.out.ok
            THEN Raised(h.self, h.out.err)
            ELSE Returned([h.self EXCEPT !.EditButton_fg_color    = h.self.edit_disabled_color,
                                         !.EditButton_hover_color = h.out.val,
                                         !.EditButton_text        = h.self.edit_disabled_text],
                          <<>>)
    IN  built(_get_hover_color(s, s.edit_disabled_color))

\* CTkSafeEditBox(master, **a)
init(a) == create_button(new_fields(a))

\* `if command: command()` on instance s; the callback sees the widget as it is then
invoke(s, name, command) ==
    IF command # None THEN <<[name |-> name, saw |-> View(s)]>> ELSE <<>>

\* mutation of enable_edit: the callback runs before the button is reconfigured
enable_edit_callback_first(s1) ==
    LET configured(h, cs) ==
            IF ~h.out.ok
            THEN Raised(h.self, h.out.err)
            ELSE Returned([h.self EXCEPT !.EditButton_fg_color    = h.self.edit_enabled_color,
                                         !.EditButton_hover_color = h.out.val,
                                         !.EditButton_text        = h.self.edit_enabled_text,
                                         !.Entry_focus            = TRUE,
                                         !.Entry_select_all       = TRUE],
                          cs)
        writable(s2) ==
            configured(_get_hover_color(s2, s2.edit_enabled_color),
                       invoke(s2, "on_enable_edit_command", s2.on_enable_edit_command))
    IN  writable([s1 EXCEPT !.Entry_state = "normal"])

\* the branch of toggle_edit_mode taken when can_edit has become True.  The
\* arguments of EditButton.configure are evaluated before it is called, so an
\* exception from _get_hover_color leaves the button as it was.
enable_edit(s1) ==
    LET selected(s4) ==
            Returned(s4, invoke(s4, "on_enable_edit_command", s4.on_enable_edit_command))
        configured(h) ==
            IF ~h.out.ok
            THEN Raised(h.self, h.out.err)
            ELSE selected([h.self EXCEPT !.EditButton_fg_color    = h.self.edit_enabled_color,
                                         !.EditButton_hover_color = h.out.val,
                                         !.EditButton_text        = h.self.edit_enabled_text,
                                         !.Entry_focus            = TRUE,
                                         !.Entry_select_all       = TRUE])
        writable(s2) == configured(_get_hover_color(s2, s2.edit_enabled_color))
    IN  writable([s1 EXCEPT !.Entry_state = "normal"])

\* mutation of disable_edit: the button's label is not set back
disable_edit_keeps_text(s1) ==
    LET done(s3) ==
            Returned(s3, invoke(s3, "on_disable_edit_command", s3.on_disable_edit_command))
        configured(h) ==
            IF ~h.out.ok
            THEN Raised(h.self, h.out.err)
            ELSE done([h.self EXCEPT !.EditButton_fg_color    = h.self.edit_disabled_color,
                                     !.EditButton_hover_color = h.out.val])
        readonly(s2) == configured(_get_hover_color(s2, s2.edit_disabled_color))
    IN  readonly([s1 EXCEPT !.Entry_state = "disabled"])

\* the branch of toggle_edit_mode taken when can_edit has become False
disable_edit(s1) ==
    LET done(s3) ==
            Returned(s3, invoke(s3, "on_disable_edit_command", s3.on_disable_edit_command))
        configured(h) ==
            IF ~h.out.ok
            THEN Raised(h.self, h.out.err)
            ELSE done([h.self EXCEPT !.EditButton_fg_color    = h.self.edit_disabled_color,
                                     !.EditButton_hover_color = h.out.val,
                                     !.EditButton_text        = h.self.edit_disabled_text])
        readonly(s2) == configured(_get_hover_color(s2, s2.edit_disabled_color))
    IN  readonly([s1 EXCEPT !.Entry_state = "disabled"])

toggle_edit_mode(s) ==
    LET flipped(s1) == IF s1.can_edit THEN enable_edit(s1) ELSE disable_edit(s1)
    IN  flipped([s EXCEPT !.can_edit = ~s.can_edit])

\* mutation of _limit_characters: one character too many is kept
_limit_characters_one_more(s) ==
    IF Len(s.entry_var) >= s.max_characters.val
    THEN [s EXCEPT !.entry_var = py_slice_to(s.entry_var, s.max_characters.val + 1)]
    ELSE s

\* mutation of _limit_characters: the end of the text is kept instead of its start
_limit_characters_suffix(s) ==
    IF Len(s.entry_var) >= s.max_characters.val
    THEN [s EXCEPT !.entry_var =
              SubSeq(s.entry_var, Len(s.entry_var) - s.max_characters.val + 1, Len(s.entry_var))]
    ELSE s

_limit_characters(s) ==
    IF Len(s.entry_var) >= s.max_characters.val
    THEN [s EXCEPT !.entry_var = py_slice_to(s.entry_var, s.max_characters.val)]
    ELSE s

\* a write to entry_var: the value is stored, then the write trace, if one was
\* added, runs once (Tcl disables a variable's traces while one of them runs)
entry_var_write(s, value) ==
    LET stored(s1) == IF s1.trace THEN _limit_characters(s1) ELSE s1
    IN  stored([s EXCEPT !.entry_var = value])

\* the entry's text after the user types character c with the cursor at pos
typed(s, c, pos) ==
    IF s.Entry_select_all
    THEN <<c>>
    ELSE SubSeq(s.entry_var, 1, pos) \o <<c>> \o SubSeq(s.entry_var, pos + 1, Len(s.entry_var))

----------------------------------------------------------------------------
(* Inputs.                                                                 *)

Alphabet == {"a", "b"}

Texts == UNION {[1..n -> Alphabet] : n \in 0..MaxLen}

Red == <<"r","e","d">>

Green == <<"g","r","e","e","n">>

NotAColor == <<"n","o","t","a","c","o","l","o","r">>

Grey == <<"#","8","0","8","0","8","0">>

White == <<"#","F","F","F","F","F","F">>

Signed == <<"#","+","f","-","1"," ","8">>

LabelPairs == {<<"A", "M">>, <<"Edit", "Edit">>}

DisabledColors == {Red, NotAColor}

EnabledColors == {Green, White, NotAColor}

MaxCharacters ==
    {[type |-> "NoneType", val |-> 0], [type |-> "float", val |-> 1]}
        \cup {[type |-> "int", val |-> n] : n \in 1..MaxChars}

Commands == {None, "callable"}

Args ==
    {[edit_disabled_text      |-> l[1],
      edit_enabled_text       |-> l[2],
      edit_disabled_color     |-> dc,
      edit_enabled_color      |-> ec,
      max_characters          |-> m,
      on_disable_edit_command |-> d,
      on_enable_edit_command  |-> e] :
        l \in LabelPairs, dc \in DisabledColors, ec \in EnabledColors,
        m \in MaxCharacters, d \in Commands, e \in Commands}

\* the constructor's default arguments
DefaultArgs ==
    [edit_disabled_text      |-> "A",
     edit_enabled_text       |-> "M",
     edit_disabled_color     |-> Red,
     edit_enabled_color      |-> Green,
     max_characters          |-> [type |-> "NoneType", val |-> 0],
     on_disable_edit_command |-> None,
     on_enable_edit_command  |-> None]

HoverArgs == {Grey, NotAColor, Signed}

NoCall == [arg |-> <<>>, out |-> Raise(None)]

----------------------------------------------------------------------------
(* The widget in use: constructed, then toggled, written to, typed into,   *)
(* and asked for hover colours, in any order.                              *)

Constructed(a) ==
    \E r \in {init(a)} :
        /\ r.raised = None
        /\ self = r.self
        /\ op = "__init__"
        /\ raised = None
        /\ calls = r.calls
        /\ last_cb = None
        /\ prev_view = <<>>
        /\ written = <<>>
        /\ hover_ret = NoCall

Init ==
    /\ theme \in Themes
    /\ \E a \in Args : Constructed(a)

\* the button's command, or a direct call of toggle_edit_mode
Toggle ==
    \E r \in {toggle_edit_mode(self)} :
        /\ self' = r.self
        /\ op' = "toggle_edit_mode"
        /\ raised' = r.raised
        /\ calls' = r.calls
        /\ last_cb' = IF r.calls # <<>> THEN r.calls[Len(r.calls)].name ELSE last_cb
        /\ prev_view' = <<View(self)>>
        /\ UNCHANGED <<theme, written, hover_ret>>

\* entry_var.set(value) from the program
SetText(value) ==
    /\ self' = entry_var_write(self, value)
    /\ op' = "entry_var.set"
    /\ raised' = None
    /\ calls' = <<>>
    /\ written' = value
    /\ UNCHANGED <<theme, last_cb, prev_view, hover_ret>>

\* a key press in the entry, which Tk accepts only in state "normal"
UserType(c, pos) ==
    /\ self.Entry_state = "normal"
    /\ Len(self.entry_var) < MaxLen
    /\ pos \in 0..Len(self.entry_var)
    /\ \E value \in {typed(self, c, pos)} :
          /\ self' = [entry_var_write(self, value) EXCEPT !.Entry_select_all = FALSE]
          /\ written' = value
    /\ op' = "key"
    /\ raised' = None
    /\ calls' = <<>>
    /\ UNCHANGED <<theme, last_cb, prev_view, hover_ret>>

\* a direct call of _get_hover_color
HoverCall(c) ==
    \E r \in {_get_hover_color(self, c)} :
        /\ self' = r.self
        /\ op' = "_get_hover_color"
        /\ raised' = r.out.err
        /\ calls' = <<>>
        /\ hover_ret' = [arg |-> c, out |-> r.out]
        /\ UNCHANGED <<theme, last_cb, prev_view, written>>

Next ==
    \/ Toggle
    \/ \E value \in Texts : SetText(value)
    \/ \E c \in Alphabet, pos \in 0..MaxLen : UserType(c, pos)
    \/ \E c \in HoverArgs : HoverCall(c)

Spec == Init /\ [][Next]_vars

----------------------------------------------------------------------------
(* _get_hover_color on its own: a widget built with the constructor's      *)
(* defaults is asked for the hover colour of a wide range of inputs.       *)

Channels == 0..255

\* '#RRGGBB' written with the given digit table
HexCode(rgb, digits) ==
    <<"#", digits[(rgb[1] \div 16) + 1], digits[(rgb[1] % 16) + 1],
           digits[(rgb[2] \div 16) + 1], digits[(rgb[2] % 16) + 1],
           digits[(rgb[3] \div 16) + 1], digits[(rgb[3] % 16) + 1]>>

ChannelTriples ==
    UNION {{<<v, 0, 255>>, <<255, v, 128>>, <<18, 52, v>>, <<v, v, v>>} : v \in Channels}

ValidCodes == {HexCode(t, d) : t \in ChannelTriples, d \in {HexLower, HexUpper}}

OddChars == {"0", "f", "F", "+", "-", " ", "_", "x", "g"}

OddPairs == {<<c1, c2>> : c1 \in OddChars, c2 \in OddChars}

\* seven-character codes with one channel drawn from OddPairs
OddCodes ==
    UNION {{<<"#">> \o q \o <<"0","0","0","0">>,
            <<"#","0","0">> \o q \o <<"0","0">>,
            <<"#","0","0","0","0">> \o q} : q \in OddPairs}

WrongLength ==
    {<<"#">>, <<"#","F","F","F">>, <<"#","F","F","F","F","F">>,
     <<"#","F","F","F","F","F","F","F">>, <<"#","F","F","F","F","F","F","F","F">>}

Names ==
    {Red, Green, <<"w","h","i","t","e">>, NotAColor, <<>>, <<"n","u","m">>,
     <<"c","r","i","m","s","o","n">>, <<"F","F","F","F","F","F","F">>}

WideArgs == ValidCodes \cup OddCodes \cup WrongLength \cup Names

\* the input of the call to come is drawn first
InitHover ==
    /\ theme \in Themes
    /\ \E r \in {init(DefaultArgs)} :
          /\ r.raised = None
          /\ self = r.self
    /\ op = "__init__"
    /\ raised = None
    /\ calls = <<>>
    /\ last_cb = None
    /\ prev_view = <<>>
    /\ written = <<>>
    /\ \E c \in WideArgs : hover_ret = [arg |-> c, out |-> Raise(None)]

NextHover == op = "__init__" /\ HoverCall(hover_ret.arg)

SpecHover == InitHover /\ [][NextHover]_vars

----------------------------------------------------------------------------
(* Properties.                                                             *)

EnabledLook(s) ==
    /\ s.EditButton_text = s.edit_enabled_text
    /\ s.EditButton_fg_color = s.edit_enabled_color

DisabledLook(s) ==
    /\ s.EditButton_text = s.edit_disabled_text
    /\ s.EditButton_fg_color = s.edit_disabled_color

\* a step taken by toggle_edit_mode: the only operation that flips can_edit
ToggleStep == self'.can_edit # self.can_edit

HasThemeEntry(c) == theme.type = "dict" /\ c \in DOMAIN theme.table

IsHexCode(c) == Len(c) = 7 /\ c[1] = "#" /\ \A i \in 2..7 : IsHexDigit(c[i])

\* C1: right after construction, whatever the configuration, the widget is
\* DISABLED: can_edit is false, the entry is read-only, the button shows the
\* disabled label and the disabled colour, and no callback has been invoked.
C1_InitiallyDisabled ==
    op = "__init__" =>
        /\ self.can_edit = FALSE
        /\ self.Entry_state = "disabled"
        /\ DisabledLook(self)
        /\ calls = <<>>
        /\ last_cb = None

C1_Witness ==
    /\ op = "__init__"
    /\ self.on_enable_edit_command # None
    /\ self.on_disable_edit_command # None
    /\ self.max_characters.type = "int"
    /\ self.edit_enabled_text # self.edit_disabled_text
    /\ self.EditButton_text = "A"

\* C2: two toggles in a row bring back the edit flag, the entry's state and
\* the button's label, colour and hover colour that held before them.
C2_ToggleTwice ==
    [][(ToggleStep /\ prev_view # <<>>) => View(self') = prev_view[1]]_vars

C2_Witness ==
    /\ op = "toggle_edit_mode"
    /\ prev_view # <<>>
    /\ prev_view[1].can_edit
    /\ prev_view[1].text = "M"
    /\ self.EditButton_text = "A"
    /\ raised = None

\* C3: with a positive integer max_characters, the stored text is never
\* longer than it once a mutation's limiter has run, in either edit state.
C3_LengthBounded ==
    (self.max_characters.type = "int" /\ self.max_characters.val > 0) =>
        Len(self.entry_var) <= self.max_characters.val

C3_Witness ==
    /\ self.max_characters.type = "int"
    /\ self.max_characters.val > 0
    /\ self.can_edit
    /\ op = "entry_var.set"
    /\ Len(written) > self.max_characters.val
    /\ Len(self.entry_var) = self.max_characters.val

\* C4: every toggle performs one complete transition: from DISABLED the entry
\* becomes writable, the button takes the enabled look and on-enable, if
\* configured, is invoked once and on-disable is not; from ENABLED the mirror
\* image; with both callbacks configured the invocations alternate, the first
\* being on-enable.
C4_CompleteTransition ==
    [][ToggleStep =>
          /\ ~self.can_edit =>
                /\ self'.Entry_state = "normal"
                /\ EnabledLook(self')
                /\ Len(calls') = (IF self.on_enable_edit_command # None THEN 1 ELSE 0)
                /\ \A i \in 1..Len(calls') : calls'[i].name = "on_enable_edit_command"
          /\ self.can_edit =>
                /\ self'.Entry_state = "disabled"
                /\ DisabledLook(self')
                /\ Len(calls') = (IF self.on_disable_edit_command # None THEN 1 ELSE 0)
                /\ \A i \in 1..Len(calls') : calls'[i].name = "on_disable_edit_command"
          /\ (self.on_enable_edit_command # None /\ self.on_disable_edit_command # None
                /\ calls' # <<>>) =>
                /\ calls'[1].name # last_cb
                /\ last_cb = None => calls'[1].name = "on_enable_edit_command"
       ]_vars

\* C5: for a well-formed '#RRGGBB' with no theme entry, the result is '#'
\* followed by the two-digit lowercase hex of floor(0.85 * channel) for each
\* channel, each at most 216; '#FFFFFF' gives '#d8d8d8', '#808080' '#6c6c6c'.
C5_HexDarkened ==
    LET c        == hover_ret.arg
        chan(i)  == HexVal(c[i]) * 16 + HexVal(c[i + 1])
        floor(x) == CHOOSE n \in Channels : 100 * n <= 85 * x /\ 85 * x < 100 * (n + 1)
        enc(n)   == <<HexLower[(n \div 16) + 1], HexLower[(n % 16) + 1]>>
    IN  (op = "_get_hover_color" /\ IsHexCode(c) /\ ~HasThemeEntry(c)) =>
            /\ hover_ret.out.ok
            /\ hover_ret.out.val =
                   <<"#">> \o enc(floor(chan(2))) \o enc(floor(chan(4))) \o enc(floor(chan(6)))
            /\ \A i \in {2, 4, 6} : floor(chan(i)) \in 0..216
            /\ c = White => hover_ret.out.val = <<"#","d","8","d","8","d","8">>
            /\ c = Grey => hover_ret.out.val = <<"#","6","c","6","c","6","c">>

C5_Witness ==
    /\ op = "_get_hover_color"
    /\ hover_ret.arg = White
    /\ ~HasThemeEntry(White)
    /\ hover_ret.out.val = <<"#","d","8","d","8","d","8">>

\* C6: the utility raises the invalid-colour error for every invalid input: a
\* '#' string whose length is not 7, a 7-character '#' string with a character
\* that is not a hex digit, a name the toolkit cannot resolve.
C6_InvalidRejected ==
    LET c == hover_ret.arg
        invalid ==
            \/ startswith_hash(c) /\ Len(c) # 7
            \/ startswith_hash(c) /\ Len(c) = 7 /\ \E i \in 2..7 : ~IsHexDigit(c[i])
            \/ ~startswith_hash(c) /\ c \notin DOMAIN TkColors
    IN  (op = "_get_hover_color" /\ invalid /\ ~HasThemeEntry(c)) =>
            /\ ~hover_ret.out.ok
            /\ hover_ret.out.err = "ValueError"
            /\ raised = "ValueError"

\* C7: a call of the utility, returning or raising, changes nothing of the
\* widget, and a call with the same input as the call before it has the same
\* outcome, whatever happened to the widget in between.
C7_Pure ==
    [][op' = "_get_hover_color" =>
          /\ self' = self
          /\ (hover_ret # NoCall /\ hover_ret'.arg = hover_ret.arg) =>
                hover_ret'.out = hover_ret.out
       ]_vars

C7_Witness ==
    /\ op = "_get_hover_color"
    /\ hover_ret.arg = Grey
    /\ hover_ret.out.ok
    /\ self.can_edit
    /\ self.entry_var # <<>>
    /\ self.EditButton_hover_color # hover_ret.out.val

\* C8: with an integer max_characters M a mutation writing s stores s when
\* len(s) < M and the first M characters of s otherwise; with no maximum no
\* limiter is installed and s is stored whole.
C8_PrefixKept ==
    op \in {"entry_var.set", "key"} =>
        /\ self.max_characters.type = "int" =>
              self.entry_var =
                  IF Len(written) < self.max_characters.val
                  THEN written
                  ELSE [i \in 1..self.max_characters.val |-> written[i]]
        /\ self.max_characters.type = "NoneType" =>
              /\ ~self.trace
              /\ self.entry_var = written

C8_Witness ==
    /\ op = "entry_var.set"
    /\ self.max_characters.type = "int"
    /\ Len(written) > self.max_characters.val
    /\ written[1] # written[Len(written)]
    /\ self.entry_var = <<written[1]>>

\* C9: the three views of the edit state always agree (flag, entry state,
\* button look), also after a toggle that raised.
C9_ViewsAgree ==
    /\ self.can_edit <=> self.Entry_state = "normal"
    /\ self.can_edit => EnabledLook(self)
    /\ ~self.can_edit => DisabledLook(self)

\* C10: the callback is the last step of a toggle: what it sees is the widget
\* as the toggle leaves it, with flag, entry state and button look already
\* those of the state just entered.
C10_CallbackSeesNewState ==
    \A i \in 1..Len(calls) :
        /\ calls[i].saw = View(self)
        /\ calls[i].name = "on_enable_edit_command" =>
              /\ calls[i].saw.can_edit
              /\ calls[i].saw.state = "normal"
              /\ calls[i].saw.text = self.edit_enabled_text
              /\ calls[i].saw.fg_color = self.edit_enabled_color
        /\ calls[i].name = "on_disable_edit_command" =>
              /\ ~calls[i].saw.can_edit
              /\ calls[i].saw.state = "disabled"
              /\ calls[i].saw.text = self.edit_disabled_text
              /\ calls[i].saw.fg_color = self.edit_disabled_color

C10_Witness ==
    /\ calls # <<>>
    /\ calls[1].name = "on_enable_edit_command"
    /\ calls[1].saw.text = "M"
    /\ last_cb = "on_enable_edit_command"

====
